---- MODULE Spec2Model ----
(***************************************************************************)
(* Stream ingestion and playback pipeline of the chat client:              *)
(*   - the frame decoders postQueryStream (one JSON object per line) and   *)
(*     postQueryStreamSSE (data-prefixed lines),                           *)
(*   - the playback scheduler useSmoothTyping,                             *)
(*   - the session orchestrator ChatContainer.handleSend / handleStop.     *)
(* Text is a sequence of one-character strings; a byte stream is a         *)
(* sequence of bytes, an ASCII byte being written as its character and a   *)
(* non-ASCII byte as "xHH".                                                *)
(***************************************************************************)
EXTENDS Integers, Sequences, FiniteSets, TLC

\* ------------------------------------------------------------------ bounds
\* Lines per byte stream in the decoder specification.
MaxLines == 2
\* Messages the user sends in a conversation.
MaxSends == 2
\* Bytes in a chunk that is not the rest of the stream.
MaxChunk == 3
\* Characters in the block one update appends to the target.
MaxBacklog == 500
\* Characters the target may hold beyond that block.
MaxTarget == 2

\* ------------------------------------------------------------------- text
Q == "\""
NL == "\n"
FFFD == "U+FFFD"
EAcute == "U+00E9"
\* Lead and continuation bytes of the two-byte UTF-8 sequence C3 A9.
LeadBytes == {"xC3"}
ContBytes == {"xA9"}
\* White space String.prototype.trim removes (and JSON.parse skips).
WhiteSpace == {" ", "\t", "\r", NL}

RECURSIVE Flatten(_)
Flatten(ss) == IF ss = <<>> THEN <<>> ELSE Head(ss) \o Flatten(Tail(ss))

IsPrefix(p, s) == Len(p) <= Len(s) /\ SubSeq(s, 1, Len(p)) = p

\* s.slice(n)
Slice(s, n) == SubSeq(s, n + 1, Len(s))

\* s.startsWith(p)
StartsWith(s, p) == IsPrefix(p, s)

RECURSIVE TrimStart(_)
TrimStart(s) ==
    IF s # <<>> /\ Head(s) \in WhiteSpace THEN TrimStart(Tail(s)) ELSE s

RECURSIVE TrimEnd(_)
TrimEnd(s) ==
    IF s # <<>> /\ s[Len(s)] \in WhiteSpace
    THEN TrimEnd(SubSeq(s, 1, Len(s) - 1))
    ELSE s

\* s.trim()
Trim(s) == TrimEnd(TrimStart(s))

Min(S) == CHOOSE x \in S : \A y \in S : x <= y

\* buffer.split("\n"): the pieces between the newlines, the last one being
\* what follows the last newline (empty when the buffer ends in a newline).
RECURSIVE Split(_)
Split(s) ==
    LET At(nl) ==
            <<SubSeq(s, 1, nl - 1)>> \o Split(SubSeq(s, nl + 1, Len(s)))
        Cut(nls) == IF nls = {} THEN <<s>> ELSE At(Min(nls))
    IN Cut({i \in 1..Len(s) : s[i] = NL})

\* decoder.decode(value, {stream: true}) of a UTF-8 TextDecoder: pend is the
\* incomplete sequence kept from the previous call.  A lead byte waits for its
\* continuation byte, also across calls; a lead byte followed by anything else
\* and a continuation byte on its own decode to U+FFFD.  Each byte of
\* pend \o bytes yields one character or, when it is the continuation of the
\* lead byte before it or a lead byte still waiting, nothing.
Nothing == "nothing"
Utf8Decode(pend, bytes) ==
    LET Is(c) == c # Nothing
        Of(b, n) ==
            [text |-> SelectSeq(
                 [i \in 1..n |->
                    IF b[i] \in LeadBytes
                    THEN IF i = n THEN Nothing
                         ELSE IF b[i + 1] \in ContBytes THEN EAcute ELSE FFFD
                    ELSE IF b[i] \in ContBytes
                    THEN IF i > 1 /\ b[i - 1] \in LeadBytes
                         THEN Nothing ELSE FFFD
                    ELSE b[i]], Is),
             pending |-> IF n > 0 /\ b[n] \in LeadBytes THEN <<b[n]>> ELSE <<>>]
    IN Of(pend \o bytes, Len(pend) + Len(bytes))

\* A decode that forgets the incomplete sequence at the end of each call
\* (decode(value) without {stream: true}).
DecodeNoStream(pend, bytes) ==
    LET Flush(r) ==
            [text |-> IF r.pending = <<>> THEN r.text ELSE Append(r.text, FFFD),
             pending |-> <<>>]
    IN Flush(Utf8Decode(<<>>, bytes))

Decode(pend, bytes) == Utf8Decode(pend, bytes)

\* ------------------------------------------------------------- JSON.parse
\* JSON.parse on the texts the model's streams contain: an object whose
\* members are strings without escape sequences, white space allowed between
\* the tokens; every other text of the model is not JSON and makes JSON.parse
\* throw.  The result is the list of <<key, value>> members.
RECURSIVE SkipWs(_, _)
SkipWs(s, i) ==
    IF i <= Len(s) /\ s[i] \in WhiteSpace THEN SkipWs(s, i + 1) ELSE i

\* The closing quote of the string whose first character is at j, or 0 when
\* the string is not closed or holds a control character or an escape.
StrEnd(s, j) ==
    LET First(stops) ==
            IF stops = {} THEN 0
            ELSE IF s[Min(stops)] = Q THEN Min(stops) ELSE 0
    IN First({i \in j..Len(s) : s[i] \in {Q, NL, "\t", "\r", "\\"}})

NoString == [ok |-> FALSE, val |-> <<>>, next |-> 0]

ScanString(s, i) ==
    LET Close(e) ==
            IF e = 0 THEN NoString
            ELSE [ok |-> TRUE, val |-> SubSeq(s, i + 1, e - 1), next |-> e + 1]
    IN IF i > Len(s) \/ s[i] # Q THEN NoString ELSE Close(StrEnd(s, i + 1))

SyntaxError == [ok |-> FALSE, obj |-> <<>>]

RECURSIVE ParseMembers(_, _, _)
\* The members from position i on: a key k, a colon at c, a value v, and at d
\* a comma (more members) or the closing brace (the end of the text).
ParseMembers(s, i, obj) ==
    LET Key(k) ==
          LET Colon(c) ==
                LET Value(v) ==
                      LET After(d, o) ==
                            IF d > Len(s) THEN SyntaxError
                            ELSE IF s[d] = "," THEN ParseMembers(s, d + 1, o)
                            ELSE IF s[d] = "}" /\ SkipWs(s, d + 1) > Len(s)
                                 THEN [ok |-> TRUE, obj |-> o]
                                 ELSE SyntaxError
                      IN IF ~v.ok THEN SyntaxError
                         ELSE After(SkipWs(s, v.next),
                                    Append(obj, <<k.val, v.val>>))
                IN IF c > Len(s) \/ s[c] # ":" THEN SyntaxError
                   ELSE Value(ScanString(s, SkipWs(s, c + 1)))
          IN IF ~k.ok THEN SyntaxError ELSE Colon(SkipWs(s, k.next))
    IN Key(ScanString(s, SkipWs(s, i)))

JSONparse(s) ==
    LET Object(i) ==
          LET Body(j) ==
                IF j <= Len(s) /\ s[j] = "}"
                THEN IF SkipWs(s, j + 1) > Len(s)
                     THEN [ok |-> TRUE, obj |-> <<>>] ELSE SyntaxError
                ELSE ParseMembers(s, j, <<>>)
          IN IF i > Len(s) \/ s[i] # "{" THEN SyntaxError
             ELSE Body(SkipWs(s, i + 1))
    IN Object(SkipWs(s, 1))

\* chunk.key of a parsed object: the value of the last member of that name,
\* or Undefined.
Undefined == <<"undefined">>

RECURSIVE Get(_, _)
Get(obj, key) ==
    IF obj = <<>> THEN Undefined
    ELSE IF obj[Len(obj)][1] = key THEN obj[Len(obj)][2]
    ELSE Get(SubSeq(obj, 1, Len(obj) - 1), key)

\* A test that takes every string that is there, the empty one too.
Defined(v) == v # Undefined

\* A string is truthy when it is there and not empty.
Truthy(v) == v # Undefined /\ v # <<>>

KType == <<"t", "y", "p", "e">>
KData == <<"d", "a", "t", "a">>
KMessage == <<"m", "e", "s", "s", "a", "g", "e">>
VDelta == <<"d", "e", "l", "t", "a">>
VDone == <<"d", "o", "n", "e">>
VError == <<"e", "r", "r", "o", "r">>
DataPrefix == <<"d", "a", "t", "a", ":", " ">>
EventPrefix == <<"e", "v", "e", "n", "t", ":">>
DoneSentinel == <<"[", "D", "O", "N", "E", "]">>

\* ---------------------------------------------------------- frame decoders
\* The for-loop of postQueryStream over the complete lines of one read:
\* the onDelta calls it makes, and whether it returned (a done event).  An
\* error event throws inside the try and is caught by the catch of the same
\* iteration, like a line JSON.parse rejects.
RECURSIVE LinesJSON(_, _)
LinesJSON(lines, deltas) ==
    LET Chunk(chunk, type, data) ==
            IF ~chunk.ok THEN LinesJSON(Tail(lines), deltas)
            ELSE IF type = VDelta /\ Truthy(data)
                 THEN LinesJSON(Tail(lines), Append(deltas, data))
            ELSE IF type = VError THEN LinesJSON(Tail(lines), deltas)
            ELSE IF type = VDone THEN [deltas |-> deltas, returned |-> TRUE]
            ELSE LinesJSON(Tail(lines), deltas)
        Parsed(chunk) ==
            Chunk(chunk, Get(chunk.obj, KType), Get(chunk.obj, KData))
        Line(line) ==
            IF Trim(line) = <<>> THEN LinesJSON(Tail(lines), deltas)
            ELSE Parsed(JSONparse(line))
    IN IF lines = <<>> THEN [deltas |-> deltas, returned |-> FALSE]
       ELSE Line(Head(lines))

\* The for-loop of postQueryStreamSSE over the complete lines of one read; an
\* error event is logged and the loop goes on.
RECURSIVE LinesSSE(_, _)
LinesSSE(lines, deltas) ==
    LET Data(data, type, text) ==
            IF ~data.ok THEN LinesSSE(Tail(lines), deltas)
            ELSE IF type = VDelta /\ Truthy(text)
                 THEN LinesSSE(Tail(lines), Append(deltas, text))
            ELSE IF type = VError THEN LinesSSE(Tail(lines), deltas)
            ELSE IF type = VDone THEN [deltas |-> deltas, returned |-> TRUE]
            ELSE LinesSSE(Tail(lines), deltas)
        Parsed(data) == Data(data, Get(data.obj, KType), Get(data.obj, KData))
        Json(jsonStr) ==
            IF jsonStr = DoneSentinel
            THEN [deltas |-> deltas, returned |-> TRUE]
            ELSE Parsed(JSONparse(jsonStr))
        Line(trimmed) ==
            IF trimmed = <<>> \/ StartsWith(trimmed, <<":">>)
               \/ StartsWith(trimmed, EventPrefix)
            THEN LinesSSE(Tail(lines), deltas)
            ELSE IF ~StartsWith(trimmed, DataPrefix)
            THEN LinesSSE(Tail(lines), deltas)
            ELSE Json(Slice(trimmed, 6))
    IN IF lines = <<>> THEN [deltas |-> deltas, returned |-> FALSE]
       ELSE Line(Trim(Head(lines)))

\* A for-loop that returns at the first line JSON.parse rejects.
LinesUntilRejected(mode, lines) ==
    LET Run(ls) ==
            IF mode = "sse" THEN LinesSSE(ls, <<>>) ELSE LinesJSON(ls, <<>>)
        Rejected(line) ==
            IF mode = "sse"
            THEN /\ StartsWith(Trim(line), DataPrefix)
                 /\ Slice(Trim(line), 6) # DoneSentinel
                 /\ ~JSONparse(Slice(Trim(line), 6)).ok
            ELSE Trim(line) # <<>> /\ ~JSONparse(line).ok
        Stop(bad) ==
            IF bad = {} THEN Run(lines)
            ELSE [deltas |-> Run(SubSeq(lines, 1, Min(bad) - 1)).deltas,
                  returned |-> TRUE]
    IN Stop({i \in 1..Len(lines) : Rejected(lines[i])})

\* A for-loop an error event ends: the throw leaves the loop and the call.
LinesErrorEnds(mode, lines) ==
    LET Run(ls) ==
            IF mode = "sse" THEN LinesSSE(ls, <<>>) ELSE LinesJSON(ls, <<>>)
        Type(chunk) == IF chunk.ok THEN Get(chunk.obj, KType) ELSE Undefined
        IsError(line) ==
            IF mode = "sse"
            THEN /\ StartsWith(Trim(line), DataPrefix)
                 /\ Type(JSONparse(Slice(Trim(line), 6))) = VError
            ELSE Trim(line) # <<>> /\ Type(JSONparse(line)) = VError
        Stop(errs) ==
            IF errs = {} THEN Run(lines)
            ELSE LET Before(r) ==
                       [deltas |-> r.deltas, returned |-> TRUE]
                 IN Before(Run(SubSeq(lines, 1, Min(errs) - 1)))
    IN Stop({i \in 1..Len(lines) : IsError(lines[i])})

\* A line-JSON loop the throw of an error event ends, beside the
\* field-framed loop as it is.
LinesJsonThrows(mode, lines) ==
    IF mode = "sse" THEN LinesSSE(lines, <<>>)
    ELSE LinesErrorEnds("json", lines)

\* A for-loop that goes on after a done event or the sentinel.
LinesPastDone(mode, lines) ==
    LET Run(ls) ==
            IF mode = "sse" THEN LinesSSE(ls, <<>>) ELSE LinesJSON(ls, <<>>)
        Goes(line) == ~Run(<<line>>).returned
        Over(r) == [deltas |-> r.deltas, returned |-> FALSE]
    IN Over(Run(SelectSeq(lines, Goes)))

\* A for-loop that parses every line, with the data prefix or without.
LinesUnframed(mode, lines) ==
    LinesJSON([i \in 1..Len(lines) |->
                  IF StartsWith(Trim(lines[i]), DataPrefix)
                  THEN Slice(Trim(lines[i]), 6) ELSE lines[i]], <<>>)

Lines(mode, lines) ==
    IF mode = "sse" THEN LinesSSE(lines, <<>>) ELSE LinesJSON(lines, <<>>)

\* A split whose last piece is forgotten instead of kept.
CarryOverDropped(lines) == <<>>

\* lines.pop() || "": the last piece of the split is kept for the next read.
CarryOver(lines) == lines[Len(lines)]

\* One iteration of the read loop on a chunk of bytes: decode, append to the
\* buffer, split, keep the last piece, run the lines.
Feed(mode, pending, buffer, chunk) ==
    LET Decoded(d) ==
          LET Buffered(lines) ==
                LET Ran(r) ==
                      [pending |-> d.pending, buffer |-> CarryOver(lines),
                       deltas |-> r.deltas, returned |-> r.returned]
                IN Ran(Lines(mode, SubSeq(lines, 1, Len(lines) - 1)))
          IN Buffered(Split(buffer \o d.text))
    IN Decoded(Decode(pending, chunk))

\* ------------------------------------------------------------ wire format
\* What the server writes: one event as JSON text (bytes), and its line in
\* either framing.
Quote(s) == <<Q>> \o s \o <<Q>>
Member(k, v) == Quote(k) \o <<":">> \o Quote(v)
JsonDelta(d) ==
    <<"{">> \o Member(KType, VDelta) \o <<",">> \o Member(KData, d) \o <<"}">>
JsonDone == <<"{">> \o Member(KType, VDone) \o <<"}">>
JsonError(m) ==
    <<"{">> \o Member(KType, VError) \o <<",">> \o Member(KMessage, m) \o <<"}">>
WireLine(mode, json) == IF mode = "sse" THEN DataPrefix \o json ELSE json

\* Delta texts of the model, as bytes and as the text they decode to.
BytesHi == <<"H", "i">>
BytesE == <<"xC3", "xA9">>
TextE == <<EAcute>>

\* The events a stream of the model is made of.
EventJson == {JsonDelta(BytesHi), JsonDelta(BytesE), JsonDelta(<<>>),
              JsonDone, JsonError(<<"x">>)}

\* Lines that are no event: a truncated object and, in the line mode, a
\* blank line ending in CR; in the field-framed mode a comment, an event-name
\* line and the sentinel.
NoiseLines(mode) ==
    IF mode = "sse"
    THEN {DataPrefix \o <<"{", Q, "t">>, <<":", "k">>,
          EventPrefix \o <<" ", "m">>, DataPrefix \o DoneSentinel}
    ELSE {<<"{", Q, "t">>, <<"\r">>}

LineLib(mode) == {WireLine(mode, j) : j \in EventJson} \cup NoiseLines(mode)

RECURSIVE Join(_)
Join(lines) ==
    IF lines = <<>> THEN <<>> ELSE Head(lines) \o <<NL>> \o Join(Tail(lines))

\* The byte streams of at most n lines; the last line may lack its newline.
Streams(mode, n) ==
    LET seqs == UNION {[1..m -> LineLib(mode)] : m \in 1..n} IN
    {Join(ls) : ls \in seqs}
    \cup {SubSeq(Join(ls), 1, Len(Join(ls)) - 1) : ls \in seqs}

\* ------------------------------------------------------- program texts
\* The literal texts of the program, character by character (a character
\* outside ASCII is written as its code point).
FailPrefix == <<"U+8BF7", "U+6C42", "U+5931", "U+8D25", "U+FF1A">>
MsgEmpty ==
    <<"U+6D41", "U+5F0F", "U+8F93", "U+51FA", "U+672A", "U+6536", "U+5230",
      "U+4EFB", "U+4F55", "U+5185", "U+5BB9">>
MsgNoBody ==
    <<"U+65E0", "U+6CD5", "U+83B7", "U+53D6", "U+54CD", "U+5E94", "U+6D41">>
SSEStatusPrefix ==
    <<"S", "S", "E", " ", "U+8BF7", "U+6C42", "U+5931", "U+8D25", "(">>
StreamStatusPrefix ==
    <<"U+6D41", "U+5F0F", "U+8BF7", "U+6C42", "U+5931", "U+8D25", "(">>
QueryStatusPrefix == <<"U+8BF7", "U+6C42", "U+5931", "U+8D25", "(">>
Greeting ==
    <<"U+4F60", "U+597D", "U+FF0C", "U+6211", "U+662F", "U+5947", "U+70B9",
      "A", "I", "U+3002", "U+544A", "U+8BC9", "U+6211", "U+4F60", "U+60F3",
      "U+804A", "U+4EC0", "U+4E48", "U+5427", "U+FF01">>

\* What the environment answers: the status and the status text of a
\* response that is not ok (its body is empty), the message of the TypeError
\* of a failed fetch or read, and the text the user typed.
StatusCode == <<"5", "0", "0">>
StatusText == <<"E">>
NetMessage == <<"n", "e", "t">>
UserText == <<"q">>

\* `SSE 请求失败(${res.status}): ${txt || res.statusText}` and its like in
\* postQueryStream and postQuery.
StatusMessage(mode) ==
    (IF mode = "sse" THEN SSEStatusPrefix
     ELSE IF mode = "json" THEN StreamStatusPrefix ELSE QueryStatusPrefix)
    \o StatusCode \o <<")", ":", " ">> \o StatusText

\* The error's message shown as it is.
BareMessage(msg) == msg

\* `请求失败：${err.message}`
FailureMessage(msg) == FailPrefix \o msg

\* ------------------------------------------------------ playback scheduler
\* The refs and the state of one useSmoothTyping instance; raf counts the
\* renderLoop callbacks requestAnimationFrame holds, and batches the batches
\* renderLoop has moved since the mount or the last reset; unchanged tells
\* that the last run of the effect found the target at the processed length,
\* with nothing to enqueue and nothing to reset.
NewTyping ==
    [displayedContent |-> <<>>, isFirstRender |-> TRUE, animatingRef |-> FALSE,
     displayedLengthRef |-> 0, processedLengthRef |-> 0, queueRef |-> <<>>,
     raf |-> 0, batches |-> 0, unchanged |-> FALSE]

TierHuge == 200
TierLarge == 50
TierSmall == 10
RateHuge == 20
RateLarge == 5
RateSmall == 2
RateBase == 1

\* A policy whose tiers begin at the thresholds themselves.
consumeInclusive(queueLength) ==
    IF queueLength >= TierHuge THEN RateHuge
    ELSE IF queueLength >= TierLarge THEN RateLarge
    ELSE IF queueLength >= TierSmall THEN RateSmall
    ELSE RateBase

consumeCount(queueLength) ==
    IF queueLength > TierHuge THEN RateHuge
    ELSE IF queueLength > TierLarge THEN RateLarge
    ELSE IF queueLength > TierSmall THEN RateSmall
    ELSE RateBase

\* A loop that moves one character at every frame.
renderLoopSteady(t) ==
    IF Len(t.queueRef) = 0 THEN [t EXCEPT !.animatingRef = FALSE]
    ELSE [t EXCEPT !.animatingRef = TRUE,
                   !.queueRef = Tail(@),
                   !.displayedContent = Append(@, Head(t.queueRef)),
                   !.displayedLengthRef = Len(t.displayedContent) + 1,
                   !.raf = @ + 1,
                   !.batches = @ + 1]

\* A loop that shows the batch in place of what was displayed.
renderLoopReplacing(t) ==
    IF Len(t.queueRef) = 0 THEN [t EXCEPT !.animatingRef = FALSE]
    ELSE [t EXCEPT !.animatingRef = TRUE,
                   !.queueRef = Tail(@),
                   !.displayedContent = <<Head(t.queueRef)>>,
                   !.displayedLengthRef = 1,
                   !.raf = @ + 1,
                   !.batches = @ + 1]

\* A loop that moves one batch and asks for no further frame.
renderLoopOnce(t) ==
    IF Len(t.queueRef) = 0 THEN [t EXCEPT !.animatingRef = FALSE]
    ELSE [t EXCEPT !.animatingRef = TRUE,
                   !.queueRef = Tail(@),
                   !.displayedContent = Append(@, Head(t.queueRef)),
                   !.displayedLengthRef = Len(t.displayedContent) + 1,
                   !.batches = @ + 1]

\* renderLoop: stop when the queue is empty, else move a batch from the head
\* of the queue to the displayed content and ask for the next frame.
renderLoop(t) ==
    IF Len(t.queueRef) = 0 THEN [t EXCEPT !.animatingRef = FALSE]
    ELSE LET Batch(k) ==
                 [t EXCEPT !.animatingRef = TRUE,
                           !.queueRef = SubSeq(@, k + 1, Len(@)),
                           !.displayedContent = @ \o SubSeq(t.queueRef, 1, k),
                           !.displayedLengthRef = Len(t.displayedContent) + k,
                           !.raf = @ + 1,
                           !.batches = @ + 1]
             Count(n) == IF n < Len(t.queueRef) THEN n ELSE Len(t.queueRef)
         IN Batch(Count(consumeCount(Len(t.queueRef))))

\* An effect that enqueues what lies beyond the displayed length.
EnqueueFromDisplayed(t, targetContent) ==
    IF Len(targetContent) > t.displayedLengthRef
    THEN [t EXCEPT !.queueRef = @ \o Slice(targetContent, t.displayedLengthRef),
                   !.processedLengthRef = Len(targetContent)]
    ELSE t

\* An effect that enqueues the whole target at every growth.
EnqueueAll(t, targetContent) ==
    IF Len(targetContent) > t.processedLengthRef
    THEN [t EXCEPT !.queueRef = @ \o targetContent,
                   !.processedLengthRef = Len(targetContent)]
    ELSE t

\* An effect whose reset leaves the queue as it is.
EnqueueKeepsQueue(t, targetContent) ==
    IF Len(targetContent) > t.processedLengthRef
    THEN [t EXCEPT !.queueRef = @ \o Slice(targetContent, t.processedLengthRef),
                   !.processedLengthRef = Len(targetContent)]
    ELSE IF Len(targetContent) < t.processedLengthRef
    THEN [t EXCEPT !.displayedContent = targetContent,
                   !.displayedLengthRef = Len(targetContent),
                   !.processedLengthRef = Len(targetContent),
                   !.batches = 0]
    ELSE t

\* Step 2 of the effect: enqueue what lies beyond the processed length, or
\* reset when the target is shorter than that.
Enqueue(t, targetContent) ==
    LET prevProcessedLen == t.processedLengthRef
        nextLen == Len(targetContent) IN
    IF nextLen > prevProcessedLen
    THEN [t EXCEPT !.queueRef = @ \o Slice(targetContent, prevProcessedLen),
                   !.processedLengthRef = nextLen,
                   !.unchanged = FALSE]
    ELSE IF nextLen < prevProcessedLen
    THEN [t EXCEPT !.displayedContent = targetContent,
                   !.displayedLengthRef = nextLen,
                   !.processedLengthRef = nextLen,
                   !.queueRef = <<>>,
                   !.batches = 0,
                   !.unchanged = FALSE]
    ELSE [t EXCEPT !.unchanged = TRUE]

\* An effect that takes the first-render branch on every run.
useSmoothTypingAlwaysFirst(t, targetContent, isThinking) ==
    IF Len(targetContent) > 0 /\ ~isThinking
    THEN [t EXCEPT !.isFirstRender = FALSE,
                   !.displayedContent = targetContent,
                   !.displayedLengthRef = Len(targetContent),
                   !.processedLengthRef = Len(targetContent)]
    ELSE LET Start(t2) ==
                 IF ~t2.animatingRef /\ Len(t2.queueRef) > 0
                 THEN renderLoop(t2) ELSE t2
         IN Start(Enqueue([t EXCEPT !.isFirstRender = FALSE], targetContent))

\* An effect without the first-render branch.
useSmoothTypingNoHistory(t, targetContent, isThinking) ==
    LET Start(t2) ==
            IF ~t2.animatingRef /\ Len(t2.queueRef) > 0
            THEN renderLoop(t2) ELSE t2
    IN Start(Enqueue([t EXCEPT !.isFirstRender = FALSE], targetContent))

\* An effect that starts a loop whenever the queue is not empty.
useSmoothTypingRestarts(t, targetContent, isThinking) ==
    IF t.isFirstRender /\ Len(targetContent) > 0 /\ ~isThinking
    THEN [t EXCEPT !.isFirstRender = FALSE,
                   !.displayedContent = targetContent,
                   !.displayedLengthRef = Len(targetContent),
                   !.processedLengthRef = Len(targetContent)]
    ELSE LET Start(t2) ==
                 IF Len(t2.queueRef) > 0 THEN renderLoop(t2) ELSE t2
         IN Start(Enqueue([t EXCEPT !.isFirstRender = FALSE], targetContent))

\* The effect of useSmoothTyping, run after a render in which targetContent
\* or isThinking changed, and after the first render.
useSmoothTyping(t, targetContent, isThinking) ==
    IF t.isFirstRender /\ Len(targetContent) > 0 /\ ~isThinking
    THEN [t EXCEPT !.isFirstRender = FALSE,
                   !.displayedContent = targetContent,
                   !.displayedLengthRef = Len(targetContent),
                   !.processedLengthRef = Len(targetContent)]
    ELSE LET Start(t2) ==
                 IF ~t2.animatingRef /\ Len(t2.queueRef) > 0
                 THEN renderLoop(t2) ELSE t2
         IN Start(Enqueue([t EXCEPT !.isFirstRender = FALSE], targetContent))

\* ------------------------------------------------------------------ state
VARIABLES
    dec,                \* one call of postQueryStream / postQueryStreamSSE on its own
    impl,               \* the ChatContainer in use: "sse" (postQueryStreamSSE,
                        \* with handleStop) or "json" (postQueryStream, with the
                        \* postQuery fallback)
    fine,               \* whether this run is followed closely: the responses
                        \* come in chunks of any size and what the server
                        \* sent is remembered; else in chunks that end with a
                        \* line
    sends,              \* how many messages the user may still send
    messages,           \* ChatContainer's messages; a message's id is its index
    abortControllerRef, \* the session whose controller the ref holds, 0 for null
    isGenerating,       \* ChatContainer's isGenerating
    sess,               \* the handleSend calls, in the order they were made
    typing              \* per message, the useSmoothTyping of its ChatMessage

vars == <<dec, impl, fine, sends, messages, abortControllerRef, isGenerating,
          sess, typing>>
chatVars == <<impl, fine, sends, messages, abortControllerRef, isGenerating,
              sess, typing>>

\* The sizes the next chunk may have when rem bytes are left: a few bytes, or
\* all that is left.
ChunkSizes(rem) == {k \in 1..rem : k <= MaxChunk \/ k = rem}

\* ------------------------------------------------------------ the chat
Message(role, content, thinking) ==
    [role |-> role, content |-> content, thinking |-> thinking]

\* The id and placeholder of the assistant message of the s-th handleSend:
\* the greeting is message 1, each send adds the user's message and then the
\* placeholder (uid() is taken to give distinct ids).
AsstId(s) == 2 * s + 1

\* The effects React runs after rendering msgs in place of messages: each
\* new ChatMessage mounts a useSmoothTyping, and each one whose content or
\* thinking changed runs its effect again.
RunEffects(old, new, ty) ==
    [i \in 1..Len(new) |->
        IF i > Len(old)
        THEN useSmoothTyping(NewTyping, new[i].content, new[i].thinking)
        ELSE IF new[i].content # old[i].content
                \/ new[i].thinking # old[i].thinking
        THEN useSmoothTyping(ty[i], new[i].content, new[i].thinking)
        ELSE ty[i]]

Render(msgs) ==
    /\ messages' = msgs
    /\ typing' = RunEffects(messages, msgs, typing)

\* ChatMessage: displayedContent = isUser ? content : typedContent
Displayed(i) ==
    IF messages[i].role = "user" THEN messages[i].content
    ELSE typing[i].displayedContent

\* One handleSend call.  pc: "fetch" awaiting fetch, "errbody" awaiting
\* res.text() of a response that is not ok, "reading" in the read loop,
\* "postQuery1" / "postQuery2" awaiting the postQuery of line 197 / 212 of
\* the older ChatContainer, "ended".  aborted: controller.signal.aborted.
\* events is what the server sends on this call, remembered in the runs
\* that are followed closely; resolved tells that the stream call returned;
\* stopped tells an abort by handleStop from one by a later handleSend, and
\* framed that a frame callback of the message has run since; res is the
\* response postQuery resolved with.
NewSession ==
    [pc |-> "fetch", aborted |-> FALSE, accumulatedContent |-> <<>>,
     stream |-> <<>>, pos |-> 0, pending |-> <<>>, buffer |-> <<>>,
     locked |-> FALSE, outcome |-> "none", queries |-> 0,
     events |-> <<>>, resolved |-> FALSE, stopped |-> FALSE, framed |-> FALSE,
     res |-> [answer |-> Undefined, output |-> Undefined]]

EndedSession(r, outcome) ==
    [r EXCEPT !.pc = "ended", !.outcome = outcome, !.locked = FALSE,
              !.stream = <<>>, !.pos = 0, !.pending = <<>>, !.buffer = <<>>]

InFlight(s) == sess[s].pc # "ended"

\* An abort that rejects nothing.
AbortIgnored == FALSE

\* A promise an aborted signal has rejected: its handlers run before any
\* other event is handled.
AbortPending == \E s \in 1..Len(sess) : sess[s].aborted /\ InFlight(s)

ChatInit(i, f, n) ==
    /\ impl = i
    /\ fine = f
    /\ sends = n
    /\ messages = <<Message("assistant", Greeting, FALSE)>>
    /\ typing = <<useSmoothTyping(NewTyping, Greeting, FALSE)>>
    /\ abortControllerRef = 0
    /\ isGenerating = FALSE
    /\ sess = <<>>

ChatIdle == ChatInit("sse", FALSE, 0)

DecIdle ==
    dec = [mode |-> "sse", stream |-> <<>>, pos |-> 0, pending |-> <<>>,
           buffer |-> <<>>, deltas |-> <<>>, status |-> "idle",
           locked |-> FALSE, whole |-> [deltas |-> <<>>, status |-> "eof"]]

\* The events of a response, and the bytes the server writes for them.
DeltaEvent(text) == [type |-> "delta", data |-> text]
DoneEvent == [type |-> "done", data |-> <<>>]
ErrorEvent(text) == [type |-> "error", data |-> text]
SentinelEvent == [type |-> "sentinel", data |-> <<>>]

Utf8Encode(text) ==
    Flatten([i \in 1..Len(text) |->
                IF text[i] = EAcute THEN BytesE ELSE <<text[i]>>])

EventLine(mode, e) ==
    IF e.type = "sentinel" THEN DataPrefix \o DoneSentinel
    ELSE WireLine(mode, IF e.type = "delta" THEN JsonDelta(Utf8Encode(e.data))
                        ELSE IF e.type = "done" THEN JsonDone
                        ELSE JsonError(Utf8Encode(e.data)))

Body(mode, events) ==
    Join([i \in 1..Len(events) |-> EventLine(mode, events[i])])

\* The responses of the server in the model: deltas and done; done alone; an
\* empty delta and done; an error between two deltas, the body then ending
\* without done; an error alone; in the field-framed mode a delta and the
\* sentinel.
ResponseEvents(mode) ==
    {<<DeltaEvent(<<"H", "i">>), DeltaEvent(TextE), DoneEvent>>,
     <<DoneEvent>>,
     <<DeltaEvent(<<>>), DoneEvent>>,
     <<DeltaEvent(<<"H", "i">>), ErrorEvent(<<"x">>), DeltaEvent(TextE)>>,
     <<ErrorEvent(<<"x">>)>>}
    \cup IF mode = "sse"
         THEN {<<DeltaEvent(<<"H", "i">>), SentinelEvent>>}
         ELSE {}

\* The sizes of the next chunk of a response of which rest is left.
LineEnd(rest) == Min({i \in 1..Len(rest) : rest[i] = NL} \cup {Len(rest)})
ChunkSizesOf(rest) ==
    IF fine THEN ChunkSizes(Len(rest))
    ELSE {k \in 1..Len(rest) : k = LineEnd(rest) \/ k = Len(rest)}

\* An update of the last message, whatever the id.
SetMessageLast(id, content, thinking) ==
    [messages EXCEPT ![Len(messages)] = [@ EXCEPT !.content = content,
                                                  !.thinking = thinking]]

\* An update of the content that leaves thinking as it is.
SetMessageKeepsThinking(id, content, thinking) ==
    [messages EXCEPT ![id] = [@ EXCEPT !.content = content]]

\* An update that turns thinking over.
SetMessageToggling(id, content, thinking) ==
    [messages EXCEPT ![id] = [@ EXCEPT !.content = content,
                                       !.thinking = ~@]]

SetMessage(id, content, thinking) ==
    [messages EXCEPT ![id] = [@ EXCEPT !.content = content,
                                       !.thinking = thinking]]

\* A catch that leaves the messages as they are.
KeepThinking(id) == messages

\* prev.map(m => m.id === assistantId ? {...m, thinking: false} : m)
ClearThinking(id) ==
    [messages EXCEPT ![id] = [@ EXCEPT !.thinking = FALSE]]

\* The finally of handleSend (ChatContainer.tsx); the older ChatContainer
\* has none.
Finally ==
    IF impl = "sse"
    THEN isGenerating' = FALSE /\ abortControllerRef' = 0
    ELSE UNCHANGED <<isGenerating, abortControllerRef>>

\* The last catch of handleSend with an error that is no AbortError.
Fail(s, msg) ==
    /\ Render(SetMessage(AsstId(s), FailureMessage(msg), FALSE))
    /\ sess' = [sess EXCEPT ![s] = EndedSession(@, "failed")]
    /\ Finally

\* postQueryStreamSSE / postQueryStream throws or rejects with an error that
\* is no AbortError.  ChatContainer.tsx fails; the older ChatContainer
\* catches it and goes on to the postQuery of line 212.
StreamThrows(s, msg) ==
    IF impl = "sse" THEN Fail(s, msg)
    ELSE /\ sess' = [sess EXCEPT ![s] =
                        [EndedSession(@, "none") EXCEPT !.pc = "postQuery2",
                                                        !.queries = @ + 1]]
         /\ UNCHANGED <<messages, typing, isGenerating, abortControllerRef>>

\* ------------------------------------------------- the decoder on its own
\* The same stream delivered as one chunk, then the end of input.
Whole(mode, stream) ==
    LET Of(r) ==
            [deltas |-> r.deltas,
             status |-> IF r.returned THEN "done" ELSE "eof"]
    IN Of(Feed(mode, <<>>, <<>>, stream))

\* dec.status: "reading" inside the read loop, "done" returned on a done
\* event or the sentinel, "eof" left the loop at the end of input, "failed"
\* a read rejected, "aborted" the signal aborted the read.  dec.whole is what
\* the call does when the stream comes as one chunk.  When the call ends its
\* locals (buffer, decoder) are gone and the body is read no further.
InitDecode ==
    /\ \E mode \in {"json", "sse"} : \E st \in Streams(mode, MaxLines) :
        dec = [mode |-> mode, stream |-> st, pos |-> 0, pending |-> <<>>,
               buffer |-> <<>>, deltas |-> <<>>, status |-> "reading",
               locked |-> TRUE, whole |-> Whole(mode, st)]
    /\ ChatIdle

\* An end of the call that keeps the lock of the reader.
EndedHolding(d, how) ==
    [d EXCEPT !.status = how, !.pos = 0, !.pending = <<>>, !.buffer = <<>>]

Ended(d, how) ==
    [d EXCEPT !.status = how, !.locked = FALSE, !.pos = 0,
              !.pending = <<>>, !.buffer = <<>>]

\* reader.read() resolves with the next k bytes.
DecRead(k) ==
    /\ dec.status = "reading"
    /\ k \in ChunkSizes(Len(dec.stream) - dec.pos)
    /\ \E r \in {Feed(dec.mode, dec.pending, dec.buffer,
                       SubSeq(dec.stream, dec.pos + 1, dec.pos + k))} :
          dec' = IF r.returned
                 THEN Ended([dec EXCEPT !.deltas = @ \o r.deltas], "done")
                 ELSE [dec EXCEPT !.pos = @ + k, !.pending = r.pending,
                                  !.buffer = r.buffer,
                                  !.deltas = @ \o r.deltas]
    /\ UNCHANGED chatVars

\* An end of input that parses what is left in the buffer.
DecEofFlushing ==
    /\ dec.status = "reading"
    /\ dec.pos = Len(dec.stream)
    /\ dec' = Ended([dec EXCEPT !.deltas =
                        @ \o Lines(dec.mode, <<dec.buffer>>).deltas], "eof")
    /\ UNCHANGED chatVars

\* reader.read() resolves with done: true.
DecEof ==
    /\ dec.status = "reading"
    /\ dec.pos = Len(dec.stream)
    /\ dec' = Ended(dec, "eof")
    /\ UNCHANGED chatVars

\* reader.read() rejects: the transport failed, or the signal was aborted.
DecReject(why) ==
    /\ dec.status = "reading"
    /\ dec' = Ended(dec, why)
    /\ UNCHANGED chatVars

NextDecode ==
    \/ \E k \in 1..Len(dec.stream) : DecRead(k)
    \/ DecEof
    \/ \E why \in {"failed", "aborted"} : DecReject(why)

SpecDecode == InitDecode /\ [][NextDecode]_vars

\* C1: however the bytes are cut into chunks, the decoder makes the onDelta
\* calls and ends at the point it does when the stream comes as one chunk:
\* at every moment the calls made are a prefix of those, and once the call
\* has returned they and the way it ended are the same.
ChunkBoundaryIndependence ==
    /\ IsPrefix(dec.deltas, dec.whole.deltas)
    /\ dec.status \in {"done", "eof"} =>
           dec.deltas = dec.whole.deltas /\ dec.status = dec.whole.status

\* A delta has been delivered, and a later multibyte character was cut by a
\* chunk boundary (its lead byte waits in the decoder) inside a line that is
\* itself spread over chunks.
WitnessChunkBoundary ==
    /\ dec.status = "reading"
    /\ dec.deltas # <<>>
    /\ dec.pending # <<>>
    /\ dec.buffer # <<>>

\* Lines that are no event: a truncated object, an object of an unknown
\* type, an object without a type (in the field-framed mode, a line without
\* the data prefix), and bytes that are no UTF-8.
MalformedLines(mode) ==
    {WireLine(mode, <<"{", Q, "t">>),
     WireLine(mode, <<"{">> \o Member(KType, <<"x">>) \o <<"}">>),
     IF mode = "sse" THEN JsonDelta(BytesHi)
     ELSE <<"{">> \o Member(KData, BytesHi) \o <<"}">>,
     <<"xC3">>}

\* A stream of two event lines with a malformed line between them; dec.without
\* is what the call does on the two event lines alone, as one chunk.
InitInsert ==
    /\ \E mode \in {"json", "sse"} :
         \E a, b \in {WireLine(mode, j) : j \in EventJson} :
           \E bad \in MalformedLines(mode) :
             dec = [mode |-> mode, stream |-> Join(<<a, bad, b>>), pos |-> 0,
                    pending |-> <<>>, buffer |-> <<>>, deltas |-> <<>>,
                    status |-> "reading", locked |-> TRUE,
                    whole |-> Whole(mode, Join(<<a, bad, b>>)),
                    without |-> Whole(mode, Join(<<a, b>>))]
    /\ ChatIdle

SpecInsert == InitInsert /\ [][NextDecode]_vars

\* C15: a stream with a malformed line inserted between two event lines,
\* however it is cut into chunks, makes the onDelta calls and ends the way
\* the stream without that line does: the line is skipped, the call does
\* not fail and goes on with the lines after it.
MalformedLineResilience ==
    /\ IsPrefix(dec.deltas, dec.without.deltas)
    /\ dec.status \in {"done", "eof"} =>
           dec.deltas = dec.without.deltas /\ dec.status = dec.without.status

\* The deltas before and after the malformed line have both been delivered.
WitnessMalformedSkipped ==
    /\ dec.status = "eof"
    /\ dec.deltas = <<<<"H", "i">>, TextE>>

\* Lines the field-framed mode passes over: a blank line, a blank line
\* ending in CR, a comment, an event-name line, and a line without the data
\* prefix.
IgnoredLines ==
    {<<>>, <<"\r">>, <<":", "k">>, EventPrefix \o <<" ", "m">>,
     JsonDelta(BytesHi)}

\* A field-framed stream of two event lines with such a line between them.
InitFilter ==
    /\ \E a, b \in {WireLine("sse", j) : j \in EventJson} :
         \E ignored \in IgnoredLines :
           dec = [mode |-> "sse", stream |-> Join(<<a, ignored, b>>), pos |-> 0,
                  pending |-> <<>>, buffer |-> <<>>, deltas |-> <<>>,
                  status |-> "reading", locked |-> TRUE,
                  whole |-> Whole("sse", Join(<<a, ignored, b>>)),
                  without |-> Whole("sse", Join(<<a, b>>))]
    /\ ChatIdle

SpecFilter == InitFilter /\ [][NextDecode]_vars

\* C30: in the field-framed mode a blank line, a comment line, an
\* event-name line and a line without the data prefix make no onDelta call
\* and do not end the call, alone or between two data lines: the stream
\* with such a line, however it is cut into chunks, does what the stream
\* without it does.
FieldFraming ==
    /\ \A l \in IgnoredLines :
          LinesSSE(<<l>>, <<>>) = [deltas |-> <<>>, returned |-> FALSE]
    /\ dec.mode = "sse"
    /\ IsPrefix(dec.deltas, dec.without.deltas)
    /\ dec.status \in {"done", "eof"} =>
           dec.deltas = dec.without.deltas /\ dec.status = dec.without.status

\* The data lines before and after a comment line have been delivered.
WitnessCommentPassed ==
    /\ dec.stream = Join(<<WireLine("sse", JsonDelta(BytesHi)), <<":", "k">>,
                           WireLine("sse", JsonDelta(BytesE))>>)
    /\ dec.status = "eof"
    /\ dec.deltas = <<<<"H", "i">>, TextE>>

\* The complete lines of a byte stream, and the stream up to its i-th line.
CompleteLines(stream) == SubSeq(Split(stream), 1, Len(Split(stream)) - 1)
Terminators(mode) ==
    {WireLine(mode, JsonDone)}
    \cup IF mode = "sse" THEN {DataPrefix \o DoneSentinel} ELSE {}

\* C25: when the call has returned or rejected, on a done event or the
\* sentinel, at the end of input, on a read error or on an abort, the lock
\* of the reader is not held.
ReaderReleased ==
    dec.status \in {"done", "eof", "failed", "aborted"} => ~dec.locked

\* The call was aborted after its first delta, the lock it held is released.
WitnessReleasedOnAbort ==
    /\ dec.status = "aborted"
    /\ dec.deltas # <<>>
    /\ ~dec.locked

\* C28: when a complete line of the stream is a done event or the sentinel,
\* the call makes the onDelta calls of the lines before the first such line
\* and no other, and returns there: it does what it does on the stream cut
\* after that line.
DoneTerminates ==
    LET Cut(ls) ==
          LET At(stops) ==
                LET Ref(w) ==
                      /\ w.status = "done"
                      /\ Len(dec.deltas) <= Min(stops) - 1
                      /\ IsPrefix(dec.deltas, w.deltas)
                      /\ dec.status \in {"done", "eof"} =>
                             dec.deltas = w.deltas /\ dec.status = "done"
                IN Ref(Whole(dec.mode, Join(SubSeq(ls, 1, Min(stops)))))
          IN \/ {i \in 1..Len(ls) : ls[i] \in Terminators(dec.mode)} = {}
             \/ At({i \in 1..Len(ls) : ls[i] \in Terminators(dec.mode)})
    IN Cut(CompleteLines(dec.stream))

\* The call returned on the sentinel; the delta of the line after it was
\* not delivered.
WitnessSentinelEnds ==
    /\ dec.stream = Join(<<DataPrefix \o DoneSentinel,
                           WireLine("sse", JsonDelta(BytesHi))>>)
    /\ dec.status = "done"
    /\ dec.deltas = <<>>

\* C29: at the end of input what follows the last newline is dropped: the
\* call has made the onDelta calls of the complete lines and no other, also
\* when the last line is a whole event.
ResidualDiscarded ==
    dec.status = "eof" =>
        LET Complete(ls) ==
              /\ Len(dec.deltas) <= Len(ls)
              /\ dec.deltas = Whole(dec.mode, Join(ls)).deltas
        IN Complete(CompleteLines(dec.stream))

\* A delta line without its newline ended the stream and was not delivered.
WitnessResidualDropped ==
    /\ \E mode \in {"json", "sse"} :
          dec.stream = WireLine(mode, JsonDelta(BytesHi)) \o <<NL>>
                         \o WireLine(mode, JsonDelta(BytesE))
    /\ dec.status = "eof"
    /\ dec.deltas = <<<<"H", "i">>>>

\* ------------------------------------------------- the session orchestrator
\* handleSend up to its first await: the two messages, the abort of the
\* controller the ref holds, the new controller, and the fetch.
handleSend ==
    /\ sends > 0
    /\ ~AbortPending
    /\ sends' = sends - 1
    /\ Render(messages \o <<Message("user", UserText, FALSE),
                             Message("assistant", <<>>, TRUE)>>)
    /\ IF impl = "sse"
       THEN /\ sess' = Append(IF abortControllerRef # 0
                              THEN [sess EXCEPT ![abortControllerRef].aborted = TRUE]
                              ELSE sess,
                              NewSession)
            /\ abortControllerRef' = Len(sess) + 1
            /\ isGenerating' = TRUE
       ELSE /\ sess' = Append(sess, NewSession)
            /\ UNCHANGED <<abortControllerRef, isGenerating>>
    /\ UNCHANGED <<dec, impl, fine>>

handleStop ==
    /\ impl = "sse"
    /\ ~AbortPending
    /\ abortControllerRef # 0
    /\ sess' = [sess EXCEPT ![abortControllerRef] =
                    [@ EXCEPT !.aborted = TRUE, !.stopped = TRUE]]
    /\ abortControllerRef' = 0
    /\ isGenerating' = FALSE
    /\ UNCHANGED <<dec, impl, fine, sends, messages, typing>>

\* fetch resolves with a response that is ok: the reader is acquired.
FetchResolves(s) ==
    /\ sess[s].pc = "fetch"
    /\ ~AbortPending
    /\ \E ev \in ResponseEvents(impl) :
          sess' = [sess EXCEPT ![s] = [@ EXCEPT !.pc = "reading",
                                                !.events = IF fine THEN ev ELSE <<>>,
                                                !.stream = Body(impl, ev),
                                                !.locked = TRUE]]
    /\ UNCHANGED <<dec, impl, fine, sends, messages, typing, abortControllerRef,
                   isGenerating>>

\* fetch resolves with a response that is not ok: res.text() is awaited.
FetchNotOk(s) ==
    /\ sess[s].pc = "fetch"
    /\ ~AbortPending
    /\ sess' = [sess EXCEPT ![s].pc = "errbody"]
    /\ UNCHANGED <<dec, impl, fine, sends, messages, typing, abortControllerRef,
                   isGenerating>>

\* fetch rejects (the network failed), or the response has no body.
FetchFails(s) ==
    /\ sess[s].pc = "fetch"
    /\ ~AbortPending
    /\ \E msg \in {NetMessage, MsgNoBody} : StreamThrows(s, msg)
    /\ UNCHANGED <<dec, impl, fine, sends>>

\* res.text() settles and the status error is thrown.
ErrBody(s) ==
    /\ sess[s].pc = "errbody"
    /\ ~AbortPending
    /\ StreamThrows(s, StatusMessage(impl))
    /\ UNCHANGED <<dec, impl, fine, sends>>

\* The stream call has resolved with acc accumulated and msgs rendered by its
\* last onDelta calls.  ChatContainer.tsx throws when nothing was
\* accumulated; the older ChatContainer returns when something was, and
\* else goes on to the postQuery of line 197.
Resolved(s, acc, msgs) ==
    IF acc # <<>>
    THEN /\ Render(msgs)
         /\ sess' = [sess EXCEPT ![s] =
                        EndedSession([@ EXCEPT !.accumulatedContent = acc,
                                               !.resolved = TRUE],
                                     "streamed")]
         /\ Finally
    ELSE IF impl = "sse"
    THEN /\ Render(SetMessage(AsstId(s), FailureMessage(MsgEmpty), FALSE))
         /\ sess' = [sess EXCEPT ![s] =
                        EndedSession([@ EXCEPT !.resolved = TRUE], "failed")]
         /\ Finally
    ELSE /\ sess' = [sess EXCEPT ![s] =
                        [EndedSession(@, "none") EXCEPT !.pc = "postQuery1",
                                                        !.queries = @ + 1,
                                                        !.resolved = TRUE]]
         /\ UNCHANGED <<messages, typing, isGenerating, abortControllerRef>>

\* reader.read() resolves with the next k bytes: one iteration of the read
\* loop, each onDelta call setting the message to what is accumulated.
Read(s) ==
    /\ sess[s].pc = "reading"
    /\ ~AbortPending
    /\ \E k \in ChunkSizesOf(Slice(sess[s].stream, sess[s].pos)) :
        \E r \in {Feed(impl, sess[s].pending, sess[s].buffer,
                       SubSeq(sess[s].stream, sess[s].pos + 1, sess[s].pos + k))} :
        \E accumulated \in {sess[s].accumulatedContent \o Flatten(r.deltas)} :
        \E updated \in {IF r.deltas # <<>>
                        THEN SetMessage(AsstId(s), accumulated, FALSE)
                        ELSE messages} :
          IF r.returned THEN Resolved(s, accumulated, updated)
          ELSE /\ Render(updated)
               /\ sess' = [sess EXCEPT ![s] =
                              [@ EXCEPT !.pos = @ + k, !.pending = r.pending,
                                        !.buffer = r.buffer,
                                        !.accumulatedContent = accumulated]]
               /\ UNCHANGED <<isGenerating, abortControllerRef>>
    /\ UNCHANGED <<dec, impl, fine, sends>>

\* reader.read() resolves with done: true.
ReadEof(s) ==
    /\ sess[s].pc = "reading"
    /\ ~AbortPending
    /\ sess[s].pos = Len(sess[s].stream)
    /\ Resolved(s, sess[s].accumulatedContent, messages)
    /\ UNCHANGED <<dec, impl, fine, sends>>

\* reader.read() rejects: the transport failed.
ReadFails(s) ==
    /\ sess[s].pc = "reading"
    /\ ~AbortPending
    /\ StreamThrows(s, NetMessage)
    /\ UNCHANGED <<dec, impl, fine, sends>>

\* The await of a session whose signal was aborted rejects.  fetch and
\* reader.read() reject with an AbortError, which the catch of handleSend
\* tells apart; res.text() rejects too, but its .catch(() => "") turns that
\* into the status error.
AbortSettles(s) ==
    /\ sess[s].aborted
    /\ InFlight(s)
    /\ IF sess[s].pc = "errbody" THEN Fail(s, StatusMessage(impl))
       ELSE /\ Render(ClearThinking(AsstId(s)))
            /\ sess' = [sess EXCEPT ![s] = EndedSession(@, "aborted")]
            /\ Finally
    /\ UNCHANGED <<dec, impl, fine, sends>>

\* The responses of /query in the model: a field is a text, the empty
\* string, or not there.
QueryResponses ==
    {[answer |-> <<"A">>, output |-> <<"O">>],
     [answer |-> <<>>, output |-> <<"O">>],
     [answer |-> Undefined, output |-> <<"O">>],
     [answer |-> Undefined, output |-> Undefined]}

\* An answer that prefers output.
AnswerOutputFirst(res) ==
    IF Truthy(res.output) THEN res.output
    ELSE IF Truthy(res.answer) THEN res.answer
    ELSE <<>>

\* res.answer || res.output || ""
Answer(res) ==
    IF Truthy(res.answer) THEN res.answer
    ELSE IF Truthy(res.output) THEN res.output
    ELSE <<>>

\* postQuery resolves.
PostQueryResolves(s) ==
    /\ sess[s].pc \in {"postQuery1", "postQuery2"}
    /\ \E res \in QueryResponses :
          /\ Render(SetMessage(AsstId(s), Answer(res), FALSE))
          /\ sess' = [sess EXCEPT ![s] =
                         [EndedSession(@, "fallback") EXCEPT !.res = res]]
    /\ UNCHANGED <<dec, impl, fine, sends, isGenerating, abortControllerRef>>

\* postQuery rejects: the one of line 197 is inside the try whose catch goes
\* on to the postQuery of line 212; that one is caught by the last catch.
PostQueryRejects(s) ==
    /\ sess[s].pc \in {"postQuery1", "postQuery2"}
    /\ IF sess[s].pc = "postQuery1"
       THEN /\ sess' = [sess EXCEPT ![s] = [@ EXCEPT !.pc = "postQuery2",
                                                     !.queries = @ + 1]]
            /\ UNCHANGED <<messages, typing, isGenerating, abortControllerRef>>
       ELSE \E msg \in {NetMessage, StatusMessage("query")} : Fail(s, msg)
    /\ UNCHANGED <<dec, impl, fine, sends>>

\* The frame callback of message i runs renderLoop.
Tick(i) ==
    /\ typing[i].raf > 0
    /\ ~AbortPending
    /\ typing' = [typing EXCEPT ![i] = renderLoop([@ EXCEPT !.raf = @ - 1])]
    /\ sess' = [s \in 1..Len(sess) |->
                  IF AsstId(s) = i /\ sess[s].stopped
                  THEN [sess[s] EXCEPT !.framed = TRUE] ELSE sess[s]]
    /\ UNCHANGED <<dec, impl, fine, sends, messages, abortControllerRef,
                   isGenerating>>

NextChat ==
    \/ handleSend
    \/ handleStop
    \/ \E s \in 1..Len(sess) : FetchResolves(s)
    \/ \E s \in 1..Len(sess) : FetchNotOk(s)
    \/ \E s \in 1..Len(sess) : FetchFails(s)
    \/ \E s \in 1..Len(sess) : ErrBody(s)
    \/ \E s \in 1..Len(sess) : Read(s)
    \/ \E s \in 1..Len(sess) : ReadEof(s)
    \/ \E s \in 1..Len(sess) : ReadFails(s)
    \/ \E s \in 1..Len(sess) : AbortSettles(s)
    \/ \E s \in 1..Len(sess) : PostQueryResolves(s)
    \/ \E s \in 1..Len(sess) : PostQueryRejects(s)
    \/ \E i \in 1..Len(messages) : Tick(i)

\* The orchestrator's events alone.  The frame callbacks change nothing but
\* typing, which no other action reads except to update it.
NextSessions ==
    \/ handleSend
    \/ handleStop
    \/ \E s \in 1..Len(sess) : FetchResolves(s)
    \/ \E s \in 1..Len(sess) : FetchNotOk(s)
    \/ \E s \in 1..Len(sess) : FetchFails(s)
    \/ \E s \in 1..Len(sess) : ErrBody(s)
    \/ \E s \in 1..Len(sess) : Read(s)
    \/ \E s \in 1..Len(sess) : ReadEof(s)
    \/ \E s \in 1..Len(sess) : ReadFails(s)
    \/ \E s \in 1..Len(sess) : AbortSettles(s)
    \/ \E s \in 1..Len(sess) : PostQueryResolves(s)
    \/ \E s \in 1..Len(sess) : PostQueryRejects(s)

\* A conversation of MaxSends sends, the responses arriving in chunks that
\* end with a line.
Init == DecIdle /\ \E i \in {"sse", "json"} : ChatInit(i, FALSE, MaxSends)
Spec == Init /\ [][NextSessions]_vars

\* A conversation of one more send.
InitLong == DecIdle /\ \E i \in {"sse", "json"} : ChatInit(i, FALSE, MaxSends + 1)
SpecLong == InitLong /\ [][NextSessions]_vars

\* One send with the frame callbacks, the response arriving in chunks of any
\* size.
InitOne == DecIdle /\ \E i \in {"sse", "json"} : ChatInit(i, TRUE, 1)
SpecOne == InitOne /\ [][NextChat]_vars

\* The conversation with every pending await of a session settling in the
\* end: the transport ends, fails or is aborted, and the event loop runs the
\* handlers of a settled promise.
Settle(s) ==
    /\ s <= Len(sess)
    /\ \/ AbortSettles(s)
       \/ FetchFails(s) \/ FetchNotOk(s) \/ FetchResolves(s) \/ ErrBody(s)
       \/ ReadFails(s) \/ ReadEof(s) \/ Read(s)
       \/ PostQueryRejects(s) \/ PostQueryResolves(s)
FairSpec ==
    Init /\ [][NextSessions]_vars /\ \A s \in 1..MaxSends : WF_vars(Settle(s))

\* ------------------------------------------------ the scheduler on its own
\* One ChatMessage and its useSmoothTyping: the message is rendered again
\* with a longer content, with a content cut short or with another thinking,
\* and the frame callbacks run.
Alphabet == <<"a", "b", "c", "d", "e", "f", "g">>
BacklogText == [i \in 1..MaxBacklog |-> Alphabet[(i % 7) + 1]]
Appends == {<<"h">>, <<"i", "j">>, BacklogText}

InitTyping ==
    /\ DecIdle
    /\ impl = "sse"
    /\ fine = FALSE
    /\ sends = 0
    /\ abortControllerRef = 0
    /\ isGenerating = FALSE
    /\ sess = <<>>
    /\ \E content \in {<<>>, <<"h">>} : \E thinking \in BOOLEAN :
         /\ messages = <<Message("assistant", content, thinking)>>
         /\ typing = <<useSmoothTyping(NewTyping, content, thinking)>>

Update ==
    /\ sess = <<>>
    /\ \E target \in {messages[1].content \o a : a \in Appends}
                      \cup {SubSeq(messages[1].content, 1, n) :
                              n \in {k \in {0, 1} : k < Len(messages[1].content)}}
                      \cup {messages[1].content} :
         \E thinking \in BOOLEAN :
           /\ \/ Len(target) <= MaxTarget
              \/ /\ Len(target) >= MaxBacklog
                 /\ Len(target) <= MaxBacklog + MaxTarget
           /\ <<target, thinking>> # <<messages[1].content, messages[1].thinking>>
           /\ Render(<<Message("assistant", target, thinking)>>)
    /\ UNCHANGED <<dec, impl, fine, sends, abortControllerRef, isGenerating, sess>>

NextTyping ==
    \/ Update
    \/ Tick(1)

SpecTyping == InitTyping /\ [][NextTyping]_vars

\* The scheduler with the frame callbacks it has asked for running in the end
\* (the browser runs a requested animation frame callback).
FairTyping == SpecTyping /\ WF_vars(Tick(1))

\* ----------------------------------------------------------------- claims
Sessions == 1..Len(sess)
Content(s) == messages[AsstId(s)].content
Thinking(s) == messages[AsstId(s)].thinking
Shown(s) == Displayed(AsstId(s))
HasEnded(s) == sess[s].pc = "ended"
Drained(s) == typing[AsstId(s)].queueRef = <<>>

\* The concatenation of the delta texts of a response.
Concat(events) ==
    Flatten([i \in 1..Len(events) |->
                IF events[i].type = "delta" THEN events[i].data ELSE <<>>])
DeltasThenDone(events) ==
    /\ events # <<>>
    /\ events[Len(events)].type = "done"
    /\ \A i \in 1..Len(events) - 1 : events[i].type = "delta"
HasError(events) == \E i \in 1..Len(events) : events[i].type = "error"
IsFailure(content) ==
    StartsWith(content, FailPrefix) /\ Len(content) > Len(FailPrefix)
FallbackAnswers == {Answer(res) : res \in QueryResponses}

DisplayedIsPrefixOfReceived ==
    \A s \in Sessions :
        InFlight(s) =>
            /\ IsPrefix(Shown(s), sess[s].accumulatedContent)
            /\ sess[s].pc = "reading" =>
                   IsPrefix(sess[s].accumulatedContent, Concat(sess[s].events))

\* The playback lags: three characters are received, one is displayed.
WitnessDisplayedLags ==
    \E s \in Sessions :
        /\ InFlight(s)
        /\ sess[s].accumulatedContent = <<"H", "i", EAcute>>
        /\ Shown(s) = <<"H">>

\* C4: in ChatContainer.tsx at most one session that was not aborted is
\* reading its stream.
SingleFlight ==
    impl = "sse" =>
        Cardinality({s \in Sessions :
                        sess[s].pc = "reading" /\ ~sess[s].aborted}) <= 1

\* C5: in ChatContainer.tsx, once the handlers of an abort have run, at most
\* one message is thinking.
OneGenerating ==
    (impl = "sse" /\ ~AbortPending) =>
        Cardinality({i \in 1..Len(messages) : messages[i].thinking}) <= 1

\* C6: the assistant message of a session that has ended is not thinking,
\* and every session that was started ends.
GeneratingCleared ==
    /\ [](\A s \in Sessions : HasEnded(s) => ~Thinking(s))
    /\ \A s \in 1..MaxSends :
          (Len(sess) >= s) ~> (Len(sess) >= s /\ HasEnded(s) /\ ~Thinking(s))

\* A session superseded before its first delta has ended, its placeholder
\* no longer thinking.
WitnessSupersededCleared ==
    \E s \in Sessions :
        /\ HasEnded(s) /\ sess[s].outcome = "aborted" /\ ~sess[s].stopped
        /\ sess[s].accumulatedContent = <<>>
        /\ ~Thinking(s)

\* The final content is the streamed answer, the fallback answer or a
\* failure message, each as a whole.
OneOfThree(s) ==
    /\ sess[s].outcome \in {"streamed", "aborted"} =>
           Content(s) = sess[s].accumulatedContent
    /\ sess[s].outcome = "fallback" => Content(s) \in FallbackAnswers
    /\ sess[s].outcome = "failed" => IsFailure(Content(s))

\* C7 as stated: the final content of an ended session is one of the three
\* and never empty.
FinalContentNeverEmpty ==
    \A s \in Sessions : HasEnded(s) => OneOfThree(s) /\ Content(s) # <<>>

\* C7: the final content of an ended session is exactly the streamed answer,
\* the fallback answer or a failure message; it is empty only when the
\* session was cancelled before a delta arrived or the fallback response
\* held neither answer nor output.
FinalContent ==
    \A s \in Sessions :
        HasEnded(s) =>
            /\ OneOfThree(s)
            /\ Content(s) = <<>> =>
                   \/ sess[s].outcome = "aborted"
                      /\ sess[s].accumulatedContent = <<>>
                   \/ sess[s].outcome = "fallback"

\* A failure message has replaced the content streamed before the failure.
WitnessFailureReplaces ==
    \E s \in Sessions :
        /\ HasEnded(s) /\ sess[s].outcome = "failed"
        /\ sess[s].accumulatedContent # <<>>
        /\ IsFailure(Content(s))

\* C8: a session whose stream call has read the whole of a response that
\* holds an error event ends with a failure message and without thinking.
ErrorEventFails ==
    \A s \in Sessions :
        (HasEnded(s) /\ sess[s].resolved /\ HasError(sess[s].events))
        => IsFailure(Content(s)) /\ ~Thinking(s)

\* C9: once a session is aborted, by Stop or by a later send, no delta is
\* added to what it accumulated and the content of its message changes only
\* to a failure message (the status error of a response that was not ok);
\* and when it has ended its message is not thinking.
CancelHalts ==
    /\ [][\A s \in Sessions :
             sess[s].aborted =>
                 /\ sess'[s].accumulatedContent = sess[s].accumulatedContent
                 /\ \/ messages'[AsstId(s)].content = Content(s)
                    \/ IsFailure(messages'[AsstId(s)].content)]_vars
    /\ [](\A s \in Sessions :
             (sess[s].aborted /\ HasEnded(s)) => ~Thinking(s))

\* A session cancelled after its first delta has ended with what it had.
WitnessCancelledMidStream ==
    \E s \in Sessions :
        /\ HasEnded(s) /\ sess[s].outcome = "aborted"
        /\ sess[s].accumulatedContent = <<"H", "i">>
        /\ Content(s) = <<"H", "i">>
        /\ ~Thinking(s)

\* C10: once a frame callback has run after Stop, the displayed content of
\* the stopped message grows no more.
StopHaltsPlayback ==
    [][\A s \in Sessions :
          (sess[s].stopped /\ sess[s].framed /\ sess[s].outcome = "aborted")
          => Len(typing'[AsstId(s)].displayedContent)
                 <= Len(typing[AsstId(s)].displayedContent)]_vars

\* C11: a session that was cancelled, by Stop or by a later send, ends with
\* no failure message as the content of its assistant message and with no
\* postQuery issued for it.
CancelIsNoError ==
    \A s \in Sessions :
        (HasEnded(s) /\ sess[s].aborted)
        => ~IsFailure(Content(s)) /\ sess[s].queries = 0

\* C12: when the stream call has returned on a done event with nothing
\* accumulated, the session ends with exactly one postQuery issued and with
\* the answer of a /query response as the content of its message.
FallbackTrigger ==
    \A s \in Sessions :
        (HasEnded(s) /\ sess[s].resolved /\ DeltasThenDone(sess[s].events)
         /\ Concat(sess[s].events) = <<>>)
        => /\ sess[s].queries = 1
           /\ sess[s].outcome = "fallback"
           /\ Content(s) \in FallbackAnswers

\* C13: no session issues more than one postQuery.
OneShotFallback == \A s \in Sessions : sess[s].queries <= 1

\* C14: when opening the stream fails (the fetch rejects, the response has
\* no body or its status is not ok) the session ends in that step with a
\* failure message and without a postQuery.
OpenFailureSurfaced ==
    [][\A s \in Sessions :
          (sess[s].pc \in {"fetch", "errbody"} /\ ~sess[s].aborted
           /\ sess'[s].pc \notin {"fetch", "errbody", "reading"})
          => /\ sess'[s].pc = "ended"
             /\ sess'[s].queries = 0
             /\ IsFailure(messages'[AsstId(s)].content)
             /\ ~messages'[AsstId(s)].thinking]_vars

\* The useSmoothTyping instances and what they are given.
Hooks == 1..Len(typing)
Target(i) == messages[i].content

\* C16: with a target that grows by appending, the displayed content is at
\* every moment a prefix of the target and, once the queue is empty, the
\* target itself.
MonotoneDisplay ==
    \A i \in Hooks :
        /\ IsPrefix(typing[i].displayedContent, Target(i))
        /\ typing[i].queueRef = <<>> => typing[i].displayedContent = Target(i)

\* A target that grew in two updates, the block and a character after it,
\* has been played back to its end.
WitnessPlayedBack ==
    /\ Len(Target(1)) = MaxBacklog + 1
    /\ typing[1].processedLengthRef = MaxBacklog + 1
    /\ typing[1].queueRef = <<>>
    /\ typing[1].displayedContent = Target(1)
    /\ typing[1].batches > 1

\* C17: in every step the displayed content before is a prefix of the
\* displayed content after, except in a step with a target shorter than the
\* processed length (the reset).
DisplayedOnlyAppends ==
    [][\A i \in Hooks :
          \/ IsPrefix(typing[i].displayedContent, typing'[i].displayedContent)
          \/ Len(messages'[i].content) < typing[i].processedLengthRef]_vars

\* The loop has resumed after a reset: the target was cut to its first
\* character and has grown again, and part of the growth is displayed.
WitnessAfterReset ==
    /\ Target(1) = <<BacklogText[1]>> \o BacklogText
    /\ typing[1].batches >= 2
    /\ typing[1].queueRef # <<>>
    /\ Len(typing[1].displayedContent) > 1

\* C18: the displayed content followed by the queue is the first
\* processedLength characters of the target.
BacklogConservation ==
    \A i \in Hooks :
        /\ typing[i].processedLengthRef <= Len(Target(i))
        /\ Len(typing[i].displayedContent) + Len(typing[i].queueRef)
               = typing[i].processedLengthRef
        /\ typing[i].displayedContent \o typing[i].queueRef
               = SubSeq(Target(i), 1, typing[i].processedLengthRef)

\* An update has enqueued characters behind characters still queued.
WitnessEnqueuedBehind ==
    /\ Len(Target(1)) = MaxBacklog + MaxTarget
    /\ typing[1].processedLengthRef = MaxBacklog + MaxTarget
    /\ Len(typing[1].queueRef) > MaxTarget
    /\ typing[1].displayedContent # <<>>

\* C19: a run of the loop on a queue of length L > 0 moves 20 characters if
\* L > 200, 5 if 51 <= L <= 200, 2 if 11 <= L <= 50 and 1 if L <= 10, from
\* the head of the queue to the end of the displayed content; the batch is
\* never longer than the queue, and the count does not decrease with L.
FourTiers ==
    /\ \A L \in 1..MaxBacklog : consumeCount(L) <= consumeCount(L + 1)
    /\ [][\A i \in Hooks :
             typing'[i].batches = typing[i].batches + 1 =>
                 LET Moved(k) ==
                       LET Was(L) ==
                             /\ L > 0 /\ k <= L
                             /\ k = IF L > 200 THEN 20
                                    ELSE IF L >= 51 THEN 5
                                    ELSE IF L >= 11 THEN 2
                                    ELSE 1
                             /\ IsPrefix(typing[i].displayedContent,
                                         typing'[i].displayedContent)
                             /\ typing'[i].displayedContent \o typing'[i].queueRef
                                    = SubSeq(messages'[i].content, 1,
                                             typing'[i].processedLengthRef)
                       IN Was(Len(typing'[i].queueRef) + k)
                 IN Moved(Len(typing'[i].displayedContent)
                          - Len(typing[i].displayedContent))]_vars

\* The loop has run in each of the four tiers: the queue of the block is
\* down to ten characters or fewer.
WitnessAllTiers ==
    /\ Target(1) = BacklogText
    /\ typing[1].queueRef # <<>>
    /\ Len(typing[1].queueRef) < TierSmall
    /\ typing[1].batches > RateHuge + RateLarge + RateSmall

\* C20: a queue of the length of the block, with nothing enqueued after it,
\* is empty after at most 15 + 30 + 20 + 10 = 75 runs of the loop.
DrainBound ==
    \A i \in Hooks :
        (typing[i].processedLengthRef = MaxBacklog
         /\ Len(typing[i].displayedContent) + Len(typing[i].queueRef)
                = MaxBacklog
         /\ typing[i].queueRef # <<>>)
        => typing[i].batches < 15 + 30 + 20 + 10

\* The block has been played back to its end.
WitnessDrained ==
    /\ Target(1) = BacklogText
    /\ typing[1].queueRef = <<>>
    /\ typing[1].displayedContent = BacklogText
    /\ typing[1].batches = 15 + 30 + 20 + 10

\* The whole of content c is displayed by hook state t, which has nothing
\* queued and no loop.
ShownAtOnce(t, c) ==
    /\ t.displayedContent = c
    /\ t.queueRef = <<>>
    /\ t.raf = 0 /\ ~t.animatingRef /\ t.batches = 0
    /\ t.processedLengthRef = Len(c) /\ t.displayedLengthRef = Len(c)

\* C21: a message mounted with a content that is not empty and without
\* thinking shows the whole content at once: the queue stays empty, no loop
\* is started, processed and displayed length are the length of the content.
\* This holds of the messages of the initial state and of every message a
\* step mounts.
HistoryShortCircuit ==
    /\ \A i \in Hooks :
          (Target(i) # <<>> /\ ~messages[i].thinking)
          => ShownAtOnce(typing[i], Target(i))
    /\ [][\A i \in 1..Len(typing') :
             (i > Len(typing) /\ messages'[i].content # <<>>
              /\ ~messages'[i].thinking)
             => ShownAtOnce(typing'[i], messages'[i].content)]_vars

\* The greeting and the user's message were mounted with their content and
\* show it in full; the placeholder was mounted empty and thinking.
WitnessHistoryShown ==
    /\ Len(typing) = 3
    /\ ShownAtOnce(typing[1], Greeting)
    /\ ShownAtOnce(typing[2], UserText)
    /\ Target(3) = <<>> /\ messages[3].thinking

\* C22: in a step that gives a target shorter than the processed length the
\* displayed content becomes the target, the queue empty, and processed and
\* displayed length the length of the target, a loop being active or not;
\* and at no moment is anything displayed that is not a prefix of the
\* target, so nothing queued before the reset is displayed after it.
RegressionReset ==
    /\ [][\A i \in Hooks :
             Len(messages'[i].content) < typing[i].processedLengthRef
             => /\ typing'[i].displayedContent = messages'[i].content
                /\ typing'[i].queueRef = <<>>
                /\ typing'[i].processedLengthRef = Len(messages'[i].content)
                /\ typing'[i].displayedLengthRef = Len(messages'[i].content)]_vars
    /\ [](\A i \in Hooks : IsPrefix(typing[i].displayedContent, Target(i)))

\* The target was cut to its first character while the loop was active: a
\* frame callback is pending, nothing is queued, no batch since the reset.
WitnessResetWhileActive ==
    /\ Target(1) = <<BacklogText[1]>>
    /\ typing[1].displayedContent = Target(1)
    /\ typing[1].queueRef = <<>>
    /\ typing[1].raf = 1 /\ typing[1].animatingRef
    /\ typing[1].batches = 0

\* C23: a hook never has more than one frame callback pending, and no step
\* moves more than one batch.
SingleDrainLoop ==
    /\ [](\A i \in Hooks : typing[i].raf <= 1)
    /\ [][\A i \in Hooks : typing'[i].batches <= typing[i].batches + 1]_vars

\* An update has enqueued into a queue whose loop was active: one callback
\* is pending.
WitnessOneLoop ==
    /\ Len(Target(1)) = MaxBacklog + MaxTarget
    /\ typing[1].processedLengthRef = MaxBacklog + MaxTarget
    /\ Len(typing[1].queueRef) > TierHuge
    /\ typing[1].raf = 1 /\ typing[1].animatingRef
    /\ typing[1].batches > 1

\* C24: a queue that is not empty has a frame callback pending, the loop
\* goes idle only on an empty queue, and with the frame callbacks running a
\* queue that is not empty is emptied in the end, the target then being
\* displayed in full.
DrainLiveness ==
    /\ [](\A i \in Hooks :
             /\ typing[i].queueRef # <<>> => typing[i].raf > 0
             /\ typing[i].raf = 0 => typing[i].queueRef = <<>>)
    /\ [][\A i \in Hooks :
             (typing[i].animatingRef /\ ~typing'[i].animatingRef)
             => typing[i].queueRef = <<>>]_vars
    /\ (typing[1].queueRef # <<>>)
           ~> (typing[1].queueRef = <<>>
               /\ typing[1].displayedContent = Target(1))

\* A character enqueued behind the block is the last one left in the queue,
\* its frame callback pending.
WitnessLastQueued ==
    /\ Target(1) = BacklogText \o <<"h">>
    /\ typing[1].displayedContent = BacklogText
    /\ typing[1].queueRef = <<"h">>
    /\ typing[1].raf = 1

\* C26: while a session has neither failed nor fallen back, the content of
\* its assistant message is the concatenation of the deltas delivered to it
\* so far, and from the first delta on the message is not thinking.
ContentIsDeltas ==
    \A s \in Sessions :
        sess[s].outcome \notin {"failed", "fallback"}
        => /\ Content(s) = sess[s].accumulatedContent
           /\ sess[s].accumulatedContent # <<>> => ~Thinking(s)

\* Two deltas have been delivered in two reads and the stream goes on.
WitnessTwoDeltas ==
    \E s \in Sessions :
        /\ sess[s].pc = "reading"
        /\ sess[s].accumulatedContent = <<"H", "i", EAcute>>
        /\ Content(s) = <<"H", "i", EAcute>>
        /\ ~Thinking(s)

\* C27: no message that is not thinking becomes thinking, and the
\* placeholder of every session stops thinking in the end: thinking falls
\* once and for all.
ThinkingFallsOnce ==
    /\ [][\A i \in 1..Len(messages) :
             ~messages[i].thinking => ~messages'[i].thinking]_vars
    /\ \A s \in 1..MaxSends :
          (Len(sess) >= s) ~> [](Len(sess) >= s /\ ~Thinking(s))

\* A placeholder stopped thinking at its first delta, its session has ended
\* and a later session is in flight.
WitnessThinkingFell ==
    \E s \in Sessions :
        /\ HasEnded(s) /\ sess[s].outcome = "streamed" /\ ~Thinking(s)
        /\ Len(sess) > s /\ InFlight(s + 1) /\ Thinking(s + 1)

\* The stream without its complete lines that are error events.
ErrorLine(mode) == WireLine(mode, JsonError(<<"x">>))
WithoutErrors(mode, stream) ==
    LET NoError(line) == line # ErrorLine(mode)
        Of(ls) == Join(SelectSeq(SubSeq(ls, 1, Len(ls) - 1), NoError))
                    \o ls[Len(ls)]
    IN Of(Split(stream))

ErrorEndsInput ==
    \A s \in Sessions :
        \A i \in 1..Len(sess[s].events) :
            sess[s].events[i].type = "error"
            => \/ IsPrefix(Content(s), Concat(SubSeq(sess[s].events, 1, i - 1)))
               \/ IsFailure(Content(s))
               \/ Content(s) \in FallbackAnswers

\* C33 as stated: the content taken from a response of /query is its answer
\* when answer and output are both there, its output when only output is
\* there, and the empty string when neither is there.
AnswerWhenPresent ==
    \A s \in Sessions :
        sess[s].outcome = "fallback"
        => Content(s) = IF sess[s].res.answer # Undefined
                        THEN sess[s].res.answer
                        ELSE IF sess[s].res.output # Undefined
                        THEN sess[s].res.output
                        ELSE <<>>

\* C33: the content taken from a response of /query is its answer when the
\* answer is there and not empty, whatever the output; otherwise its output
\* when that is there and not empty; otherwise the empty string.  An empty
\* answer gives way to the output.
AnswerWhenNotEmpty ==
    \A s \in Sessions :
        sess[s].outcome = "fallback"
        => LET Of(res) ==
                 /\ res.answer \notin {Undefined, <<>>}
                       => Content(s) = res.answer
                 /\ (res.answer \in {Undefined, <<>>}
                     /\ res.output \notin {Undefined, <<>>})
                       => Content(s) = res.output
                 /\ (res.answer \in {Undefined, <<>>}
                     /\ res.output \in {Undefined, <<>>})
                       => Content(s) = <<>>
           IN Of(sess[s].res)

\* A response with an empty answer and an output: the output is shown.
WitnessEmptyAnswer ==
    \E s \in Sessions :
        /\ sess[s].outcome = "fallback"
        /\ sess[s].res = [answer |-> <<>>, output |-> <<"O">>]
        /\ Content(s) = <<"O">>

\* The other framing, and a stream of event lines in the other framing: the
\* data prefix is taken from, or put before, each of its lines.
OtherMode(mode) == IF mode = "sse" THEN "json" ELSE "sse"
EventLines(mode) == {WireLine(mode, j) : j \in EventJson}
OnlyEvents(mode, stream) ==
    \A i \in 1..Len(Split(stream)) :
        Split(stream)[i] \in EventLines(mode) \cup {<<>>}
Reframed(mode, stream) ==
    LET Line(l) == IF l = <<>> THEN <<>>
                   ELSE IF mode = "sse" THEN Slice(l, 6) ELSE DataPrefix \o l
        Of(ls) == LET Joined(j) == SubSeq(j, 1, Len(j) - 1)
                  IN Joined(Join([i \in 1..Len(ls) |-> Line(ls[i])]))
    IN Of(Split(stream))

\* C34: on a stream made of delta, done and error events, however it is cut
\* into chunks, the decoder of one framing makes the onDelta calls, and ends
\* at the point and in the way, of the decoder of the other framing on the
\* same events in the other framing.
FramingEquivalence ==
    OnlyEvents(dec.mode, dec.stream) =>
        LET Same(w) ==
              /\ IsPrefix(dec.deltas, w.deltas)
              /\ dec.status \in {"done", "eof"} =>
                     dec.deltas = w.deltas /\ dec.status = w.status
        IN Same(Whole(OtherMode(dec.mode), Reframed(dec.mode, dec.stream)))

\* An error event and a delta in the line-JSON framing: the delta was
\* delivered, as it is from the data lines of the same events.
WitnessSameInBothFramings ==
    /\ dec.mode = "json"
    /\ dec.stream = Join(<<JsonError(<<"x">>), JsonDelta(BytesE)>>)
    /\ Reframed("json", dec.stream)
         = Join(<<DataPrefix \o JsonError(<<"x">>),
                  DataPrefix \o JsonDelta(BytesE)>>)
    /\ dec.status = "eof"
    /\ dec.deltas = <<TextE>>

\* C35: when a session has failed after deltas were shown and its queue is
\* drained, the text displayed for its message is the failure message.
FailureShownWhole ==
    \A s \in Sessions :
        (HasEnded(s) /\ sess[s].outcome = "failed"
         /\ sess[s].accumulatedContent # <<>> /\ IsFailure(Content(s))
         /\ Drained(s))
        => Shown(s) = Content(s)

\* C36: in ChatContainer.tsx, while a session that was not aborted is in
\* flight, abortControllerRef holds the controller of that session and
\* isGenerating is true.
TokenOwned ==
    impl = "sse" =>
        \A s \in Sessions :
            (InFlight(s) /\ ~sess[s].aborted)
            => abortControllerRef = s /\ isGenerating

\* C37: a step that is no send leaves the number and the order of the
\* messages as they are, and a message changes only in a step of the
\* session whose send created it: the content and the thinking flag of
\* every other message stay, and so do the role of the changed one and the
\* user messages.
SessionIsolation ==
    [][/\ Len(messages') >= Len(messages)
       /\ Len(sess') = Len(sess) => Len(messages') = Len(messages)
       /\ \A i \in 1..Len(messages) :
             messages'[i] # messages[i]
             => /\ messages'[i].role = messages[i].role
                /\ Len(sess') = Len(sess)
                /\ \E s \in Sessions :
                      /\ i = AsstId(s)
                      /\ sess'[s] # sess[s]
                      /\ \A j \in 1..Len(messages) \ {i} :
                            messages'[j] = messages[j]]_vars

\* A send aborted the session before it; the handlers of that abort have
\* run and cleared the thinking flag of its placeholder, and the placeholder
\* of the new session is as the send made it.
WitnessAbortBesideNewSend ==
    /\ impl = "sse"
    /\ Len(sess) = 2
    /\ HasEnded(1) /\ sess[1].aborted /\ ~sess[1].stopped
    /\ Content(1) = <<>> /\ ~Thinking(1)
    /\ InFlight(2) /\ Content(2) = <<>> /\ Thinking(2)

\* A delta event without a data member.
JsonDeltaNoData == <<"{">> \o Member(KType, VDelta) \o <<"}">>

\* C38: a delta line whose data is missing or the empty string makes no
\* onDelta call and does not end the call; a session whose response is such
\* a delta and a done event accumulates nothing, its message stays empty and
\* thinking while the stream is read, and when the call has returned it is
\* handled as the empty stream is: the failure message of the empty stream
\* in ChatContainer.tsx, the postQuery of the older ChatContainer.
EmptyDeltaDropped ==
    /\ \A mode \in {"json", "sse"} :
          \A j \in {JsonDelta(<<>>), JsonDeltaNoData} :
              Lines(mode, <<WireLine(mode, j)>>)
                = [deltas |-> <<>>, returned |-> FALSE]
    /\ \A s \in Sessions :
          sess[s].events = <<DeltaEvent(<<>>), DoneEvent>>
          => /\ sess[s].accumulatedContent = <<>>
             /\ sess[s].pc = "reading" => Content(s) = <<>> /\ Thinking(s)
             /\ (sess[s].resolved /\ impl = "sse")
                   => /\ HasEnded(s) /\ sess[s].outcome = "failed"
                      /\ Content(s) = FailureMessage(MsgEmpty)
             /\ (sess[s].resolved /\ impl = "json") => sess[s].queries >= 1

\* The stream of an empty delta and a done event was read to its end in
\* ChatContainer.tsx and the message says that nothing was received.
WitnessEmptyDeltaStream ==
    \E s \in Sessions :
        /\ impl = "sse"
        /\ sess[s].events = <<DeltaEvent(<<>>), DoneEvent>>
        /\ sess[s].resolved
        /\ Content(s) = FailureMessage(MsgEmpty)

\* C39: an update with the target it had before, only isThinking having
\* changed, leaves the hook as it was: displayed content, displayed and
\* processed length, queue, the loop and its pending frame callback and the
\* batches moved all stay.
UpdateIdempotent ==
    [][\A i \in Hooks :
          (/\ messages'[i].content = messages[i].content
           /\ messages'[i].thinking # messages[i].thinking)
          => typing'[i] = [typing[i] EXCEPT !.unchanged = TRUE]]_vars

\* The last update came with the target unchanged while the loop was
\* playing a backlog: the queue still holds it and one callback is pending.
WitnessSameTargetWhilePlaying ==
    /\ typing[1].unchanged
    /\ ~messages[1].thinking
    /\ Len(typing[1].queueRef) > TierLarge
    /\ Len(typing[1].displayedContent) < Len(Target(1))
    /\ typing[1].raf = 1 /\ typing[1].animatingRef

====
